---- MODULE Spec2Model ----
(***************************************************************************)
(* Chroma-key removal of main.py: the per-pixel classifier colorclose, the *)
(* single-frame compositor remove_green_screen and the batch driver        *)
(* remove_green_screen_from_video.                                         *)
(*                                                                         *)
(* Real numbers.  math.sqrt of an integer is kept exactly, as its square.  *)
(* The float that colorclose returns is kept as the pair lo = floor(S*r),  *)
(* hi = ceil(S*r) of the exact real r, S = Scale; lo = hi exactly when S*r *)
(* is an integer.  Arithmetic is that of the reals: the rounding of IEEE   *)
(* doubles is not modelled.  Every product stays below 2^31.               *)
(***************************************************************************)
EXTENDS Integers, Sequences, FiniteSets, TLC

VARIABLES
    ccArgs,     \* arguments of one vectorised call of colorclose (line 62)
    ccI,        \* number of elements of the call already classified
    ccOut,      \* results of the call, one per element
    ccBranch,   \* branch of the if-chain (lines 24-29) each element took
    rgArgs,     \* arguments of one call of remove_green_screen
    rgPc,       \* "call" before the call, then "returned" or "raised"
    rgRet,      \* what the call left: its locals and its result, or its exception
    pc,         \* remove_green_screen_from_video: "loop", "done" or "raised"
    process_all_frames,     \* its argument
    idx,        \* number of frames the video has yielded: the next index
    frames,     \* the frames yielded so far, frames[i + 1] the frame of index i
    saved,      \* the files written so far, in order: [path, idx, image]
    closed      \* whether input_video.close() has run (line 113)

ccVars == <<ccArgs, ccI, ccOut, ccBranch>>

rgVars == <<rgArgs, rgPc, rgRet>>

drVars == <<pc, process_all_frames, idx, frames, saved, closed>>

vars == <<ccArgs, ccI, ccOut, ccBranch, rgArgs, rgPc, rgRet,
          pc, process_all_frames, idx, frames, saved, closed>>

----------------------------------------------------------------------------
(* Bounds of the model.                                                    *)

Scale == 2          \* reals are enclosed in units of 1/Scale
ArrLen == 2         \* elements of the array handed to the vectorised classifier

(* Chroma pairs (Cb, Cr) of the pixels and of the key, in 0..255.  Against *)
(* the key (128,128) their distances are 0, 30, 42.4, 78, 101.8, 120,      *)
(* 169.7 and 180.3: below, on and between the default tolerances (30,120). *)
PixelChromas ==
    { <<128, 128>>, <<98, 128>>, <<98, 98>>, <<200, 98>>,
      <<200, 200>>, <<8, 128>>, <<8, 8>>, <<255, 0>> }

KeyChromas == { <<128, 128>>, <<98, 128>> }

(* Tolerance values: every pair over them, ordered or not, negative or not. *)
TolVals == { -15, 0, 30, 120 }

----------------------------------------------------------------------------
(* Exact arithmetic on sqrt(n).                                            *)

(* the largest s in a..b with s*s <= n, by bisection (a*a <= n) *)
RECURSIVE ISqrtIn(_, _, _)
ISqrtIn(n, a, b) ==
    IF a = b THEN a
    ELSE LET m == (a + b + 1) \div 2
         IN  IF m * m <= n THEN ISqrtIn(n, m, b) ELSE ISqrtIn(n, a, m - 1)

(* floor(sqrt(n)), 0 <= n <= 2 * 255^2 *)
ISqrt(n) == ISqrtIn(n, 0, 361)

(* L <= K * sqrt(n) for integers L, K > 0, n >= 0, s = floor(sqrt(n)),     *)
(* without forming K*K*n                                                   *)
LeKSqrtS(L, K, n, s) ==
    LET t == L - K * s
    IN  IF t <= 0 THEN TRUE
        ELSE IF t >= K THEN FALSE
        ELSE 2 * K * s * t + t * t <= K * K * (n - s * s)

(* L >= K * sqrt(n), s = floor(sqrt(n)) *)
GeKSqrtS(L, K, n, s) ==
    LET t == L - K * s
    IN  IF t < 0 THEN FALSE
        ELSE IF t >= K THEN TRUE
        ELSE 2 * K * s * t + t * t >= K * K * (n - s * s)

LeKSqrt(L, K, n) == LeKSqrtS(L, K, n, ISqrt(n))

GeKSqrt(L, K, n) == GeKSqrtS(L, K, n, ISqrt(n))

(* the largest m in a..b with m <= K * sqrt(n), by bisection *)
RECURSIVE FloorKSqrtIn(_, _, _, _, _)
FloorKSqrtIn(K, n, s, a, b) ==
    IF a = b THEN a
    ELSE LET m == (a + b + 1) \div 2
         IN  IF LeKSqrtS(m, K, n, s) THEN FloorKSqrtIn(K, n, s, m, b)
             ELSE FloorKSqrtIn(K, n, s, a, m - 1)

(* floor(K * sqrt(n)) *)
FloorKSqrt(K, n) ==
    LET s == ISqrt(n)
    IN  IF s * s = n THEN K * s ELSE FloorKSqrtIn(K, n, s, K * s, K * s + K - 1)

(* ceil(K * sqrt(n)) *)
CeilKSqrt(K, n) ==
    LET s == ISqrt(n)
    IN  IF s * s = n THEN K * s ELSE FloorKSqrt(K, n) + 1

(* floor(a / b) and ceil(a / b) for b # 0 *)
FloorDiv(a, b) == IF b > 0 THEN a \div b ELSE (0 - a) \div (0 - b)

CeilDiv(a, b) == 0 - FloorDiv(0 - a, b)

----------------------------------------------------------------------------
(* colorclose, lines 8-30.                                                 *)

(* line 23: temp = math.sqrt(...), held as temp squared *)
colorclose_temp(Cb_p, Cr_p, Cb_key, Cr_key) ==
    (Cb_key - Cb_p) * (Cb_key - Cb_p) + (Cr_key - Cr_p) * (Cr_key - Cr_p)

(* temp < tol, temp = sqrt(tempSq) *)
TempLess(tempSq, tol) == tol > 0 /\ tempSq < tol * tol

(* temp <= tol *)
TempLessEq(tempSq, tol) == tol >= 0 /\ tempSq <= tol * tol

(* the if-chain with its second comparison written temp <= tolb *)
colorclose_branch_le(tempSq, tola, tolb) ==
    IF TempLess(tempSq, tola) THEN "zero"
    ELSE IF TempLessEq(tempSq, tolb) THEN "ramp"
    ELSE "one"

(* the if-chain with the outer assignments exchanged: z = 1.0 below tola   *)
(* and z = 0.0 from tolb on                                                *)
colorclose_branch_inverted(tempSq, tola, tolb) ==
    IF TempLess(tempSq, tola) THEN "one"
    ELSE IF TempLess(tempSq, tolb) THEN "ramp"
    ELSE "zero"

(* lines 24-29: which branch assigns z *)
colorclose_branch(tempSq, tola, tolb) ==
    IF TempLess(tempSq, tola) THEN "zero"
    ELSE IF TempLess(tempSq, tolb) THEN "ramp"
    ELSE "one"

(* line 27 written temp / (tolb - tola), the lower tolerance not taken off *)
colorclose_ramp_noshift(tempSq, tola, tolb) ==
    LET K == 255 * Scale
        n == tolb - tola
    IN  IF n = 0 THEN [ raised |-> "ZeroDivisionError" ]
        ELSE [ lo |-> FloorDiv(FloorKSqrt(K, tempSq), n),
               hi |-> CeilDiv(CeilKSqrt(K, tempSq), n) ]

(* line 27 then line 30: 255.0 * ((temp - tola) / (tolb - tola)) *)
colorclose_ramp(tempSq, tola, tolb) ==
    LET K == 255 * Scale
        n == tolb - tola
    IN  IF n = 0 THEN [ raised |-> "ZeroDivisionError" ]
        ELSE IF n > 0
        THEN [ lo |-> FloorDiv(FloorKSqrt(K, tempSq) - K * tola, n),
               hi |-> CeilDiv(CeilKSqrt(K, tempSq) - K * tola, n) ]
        ELSE [ lo |-> FloorDiv(CeilKSqrt(K, tempSq) - K * tola, n),
               hi |-> CeilDiv(FloorKSqrt(K, tempSq) - K * tola, n) ]

colorclose(Cb_p, Cr_p, Cb_key, Cr_key, tola, tolb) ==
    LET temp == colorclose_temp(Cb_p, Cr_p, Cb_key, Cr_key)
        br == colorclose_branch(temp, tola, tolb)
    IN  IF br = "zero" THEN [ lo |-> 0, hi |-> 0 ]
        ELSE IF br = "ramp" THEN colorclose_ramp(temp, tola, tolb)
        ELSE [ lo |-> 255 * Scale, hi |-> 255 * Scale ]

(* line 27 raises ZeroDivisionError when it divides by tolb - tola = 0 *)
colorclose_raises(Cb_p, Cr_p, Cb_key, Cr_key, tola, tolb) ==
    /\ colorclose_branch(colorclose_temp(Cb_p, Cr_p, Cb_key, Cr_key), tola, tolb) = "ramp"
    /\ tolb - tola = 0

----------------------------------------------------------------------------
(* The image library, as main.py uses it.  An image is [mode, w, h, px],   *)
(* px the pixels in row-major order, as Image.getdata() lists them.        *)

(* Python's None, where a tuple or a record is expected *)
None == << >>

(* round(c * 64 * i / 100000): an entry of the library's fixed-point       *)
(* (6 fractional bits) JFIF conversion tables, c the coefficient * 10^5    *)
ConvTable(c, i) == FloorDiv(c * 64 * i + 50000, 100000)

Clip8(v) == IF v <= 0 THEN 0 ELSE IF v >= 255 THEN 255 ELSE v

(* convert('YCbCr') of an RGB pixel, line 46 *)
RGB2YCbCr(p) ==
    << FloorDiv(ConvTable(29900, p[1]) + ConvTable(58700, p[2])
                    + ConvTable(11400, p[3]), 64),
       FloorDiv(ConvTable(-16874, p[1]) + ConvTable(-33126, p[2])
                    + ConvTable(50000, p[3]), 64) + 128,
       FloorDiv(ConvTable(50000, p[1]) + ConvTable(-41869, p[2])
                    + ConvTable(-8131, p[3]), 64) + 128 >>

(* convert('RGBA') of a YCbCr pixel, lines 74 and 77: by way of RGB, the   *)
(* alpha channel set to 255                                                *)
YCbCr2RGBA(p) ==
    << Clip8(p[1] + FloorDiv(ConvTable(140200, p[3] - 128), 64)),
       Clip8(p[1] + FloorDiv(ConvTable(-34414, p[2] - 128)
                                 + ConvTable(-71414, p[3] - 128), 64)),
       Clip8(p[1] + FloorDiv(ConvTable(177200, p[2] - 128), 64)),
       255 >>

(* Image.convert, pixel by pixel *)
convert(im, mode) ==
    [ mode |-> mode, w |-> im.w, h |-> im.h,
      px |-> [ i \in 1..Len(im.px) |->
                 IF mode = "YCbCr" THEN RGB2YCbCr(im.px[i])
                 ELSE YCbCr2RGBA(im.px[i]) ] ]

(* Image.new(mode, (x, y), color), lines 70-71 *)
ImageNew(mode, x, y, color) ==
    [ mode |-> mode, w |-> x, h |-> y, px |-> [ i \in 1..(x * y) |-> color ] ]

(* the library's blend of two channel values under an 8-bit mask value:    *)
(* (in1 * (255 - mask) + in2 * mask) / 255, rounded                        *)
Blend8(mask, in1, in2) ==
    LET tmp == in1 * (255 - mask) + in2 * mask + 128
    IN  ((tmp \div 256) + tmp) \div 256

(* dest.paste(src, mask), line 74: src is converted to dest's mode, then   *)
(* every channel of every pixel, alpha included, is blended under the mask *)
paste(dest, src, mask) ==
    LET s == IF src.mode = dest.mode THEN src ELSE convert(src, dest.mode)
    IN  [ dest EXCEPT !.px =
            [ i \in 1..Len(dest.px) |->
                [ c \in 1..4 |-> Blend8(mask.px[i], dest.px[i][c], s.px[i][c]) ] ] ]

(* a subtraction that leaves the alpha channel of a alone *)
subtract_rgb_only(a, b) ==
    [ a EXCEPT !.px =
        [ i \in 1..Len(a.px) |->
            [ c \in 1..4 |-> IF c = 4 THEN a.px[i][c]
                             ELSE Clip8(a.px[i][c] - b.px[i][c]) ] ] ]

(* ImageChops.subtract(a, b), line 80: every channel of every pixel, alpha *)
(* included, is a - b clipped to 0..255                                    *)
subtract(a, b) ==
    [ a EXCEPT !.px =
        [ i \in 1..Len(a.px) |-> [ c \in 1..4 |-> Clip8(a.px[i][c] - b.px[i][c]) ] ] ]

(* Image.getpixel((x, y)), 0-based *)
getpixel(im, x, y) == im.px[y * im.w + x + 1]

----------------------------------------------------------------------------
(* remove_green_screen, lines 32-82.  A frame is [kind |-> "rgb", w, h,    *)
(* px], an array of h rows of w RGB pixels, or BadFrame, an array that     *)
(* Image.fromarray does not take (a wrong shape or channel count).         *)

BadFrame == [ kind |-> "bad" ]

(* Image.fromarray(frame), line 46 *)
fromarray(frame) == [ mode |-> "RGB", w |-> frame.w, h |-> frame.h, px |-> frame.px ]

(* numpy.uint8(r) of a real r in 0..255: truncation *)
Uint8(z) == z.lo \div Scale

(* line 67 without the inversion: numpy.uint8(255 * (r / 255)) *)
Uint8NotInverted(z) == z.lo \div Scale

(* numpy.uint8(255 - 255 * (r / 255)), line 67 *)
Uint8Inverted(z) == (255 * Scale - z.hi) \div Scale

(* getpixel((1, 1)) of line 50 raises IndexError on an image that has no  *)
(* second row or no second column                                          *)
KeyColorRaises(inDataFG, keyColor) ==
    keyColor = None /\ ~(inDataFG.w >= 2 /\ inDataFG.h >= 2)

(* lines 49-50 *)
ResolveKeyColor(inDataFG, keyColor) ==
    IF keyColor = None THEN getpixel(inDataFG, 1, 1) ELSE keyColor

(* lines 51-52 *)
ResolveTolerance(tolerance) == IF tolerance = None THEN <<30, 120>> ELSE tolerance

(* lines 57-82, past the defaults *)
Composite(inDataFG, keyColor, tolerance) ==
    LET x == inDataFG.w
        y == inDataFG.h
        foreground == inDataFG.px
        alphaMask == [ i \in 1..Len(foreground) |->
                         colorclose(foreground[i][2], foreground[i][3],
                                    keyColor[2], keyColor[3],
                                    tolerance[1], tolerance[2]) ]
    IN  IF \E i \in 1..Len(foreground) :
               colorclose_raises(foreground[i][2], foreground[i][3],
                                 keyColor[2], keyColor[3], tolerance[1], tolerance[2])
        THEN [ raised |-> "ZeroDivisionError" ]
        ELSE
        LET imMask == [ mode |-> "L", w |-> x, h |-> y,
                        px |-> [ i \in 1..Len(foreground) |-> Uint8(alphaMask[i]) ] ]
            invertMask == [ mode |-> "L", w |-> x, h |-> y,
                            px |-> [ i \in 1..Len(foreground) |->
                                       Uint8Inverted(alphaMask[i]) ] ]
            allgreen == ImageNew("YCbCr", x, y, keyColor)
            colorMask == paste(ImageNew("RGBA", x, y, <<0, 0, 0, 0>>),
                               allgreen, invertMask)
            inRGBA == convert(inDataFG, "RGBA")
            cleaned == subtract(inRGBA, colorMask)
        IN  [ raised |-> "none", keyColor |-> keyColor, tolerance |-> tolerance,
              alphaMask |-> alphaMask, imMask |-> imMask, invertMask |-> invertMask,
              allgreen |-> allgreen, colorMask |-> colorMask, inDataFG |-> inRGBA,
              cleaned |-> cleaned ]

remove_green_screen(frame, index, keyColor, tolerance) ==
    IF frame.kind = "bad" THEN [ raised |-> "TypeError" ]
    ELSE LET inDataFG == convert(fromarray(frame), "YCbCr")
         IN  IF KeyColorRaises(inDataFG, keyColor) THEN [ raised |-> "IndexError" ]
             ELSE Composite(inDataFG, ResolveKeyColor(inDataFG, keyColor),
                            ResolveTolerance(tolerance))

----------------------------------------------------------------------------
(* Frames and arguments of the single-frame specification.                 *)

(* RGB colours: the green of the backdrop, a green near it (chroma         *)
(* distance below 30), a colour at a middle distance, and a red far away.  *)
Palette == { <<0, 255, 0>>, <<10, 240, 10>>, <<100, 200, 50>>, <<255, 0, 0>> }

MaxW == 2           \* widest frame

Heights == {1, 2}

RgbFrames ==
    UNION { { [ kind |-> "rgb", w |-> w, h |-> h, px |-> px ] :
                px \in [1..(w * h) -> Palette] } : w \in 1..MaxW, h \in Heights }

(* explicit key colours (Y, Cb, Cr): the converted backdrop green, and a grey *)
KeyColors == { RGB2YCbCr(<<0, 255, 0>>), <<150, 128, 128>> }

Tolerances == { <<30, 120>>, <<0, 40>>, <<0, 0>>, <<120, 30>>, <<-15, 30>> }

RgInit ==
    /\ rgArgs \in [ frame : RgbFrames \cup {BadFrame},
                    keyColor : KeyColors \cup {None},
                    tolerance : Tolerances \cup {None} ]
    /\ rgPc = "call"
    /\ rgRet = [ raised |-> "not called" ]
    /\ ccArgs = None /\ ccI = 0 /\ ccOut = << >> /\ ccBranch = << >>
    /\ pc = "idle" /\ process_all_frames = TRUE /\ idx = 0
    /\ frames = << >> /\ saved = << >> /\ closed = FALSE

RemoveGreenScreen ==
    /\ rgPc = "call"
    /\ rgRet' = remove_green_screen(rgArgs.frame, 0, rgArgs.keyColor, rgArgs.tolerance)
    /\ rgPc' = IF rgRet'.raised = "none" THEN "returned" ELSE "raised"
    /\ UNCHANGED <<rgArgs, ccVars, drVars>>

SpecFrame == RgInit /\ [][RemoveGreenScreen]_vars

----------------------------------------------------------------------------
(* remove_green_screen_from_video, lines 84-113.  The video yields its     *)
(* frames one at a time (iter_frames is a generator), at most MaxFrames.   *)

MaxFrames == 12

save_to_directory == "path/output_folder_name"

(* The frames a video may hold: the backdrop with a red subject in its     *)
(* first pixel, a frame whose pixel (1,1) is red, a frame one pixel wide,  *)
(* and an array that is no image.                                          *)
VideoFrames ==
    { [ kind |-> "rgb", w |-> 2, h |-> 2,
        px |-> << <<255, 0, 0>>, <<0, 255, 0>>, <<10, 240, 10>>, <<0, 255, 0>> >> ],
      [ kind |-> "rgb", w |-> 2, h |-> 2,
        px |-> << <<0, 255, 0>>, <<100, 200, 50>>, <<0, 255, 0>>, <<255, 0, 0>> >> ],
      [ kind |-> "rgb", w |-> 1, h |-> 2, px |-> << <<0, 255, 0>>, <<255, 0, 0>> >> ],
      BadFrame }

(* a frame the loop body never reads, whatever it holds *)
Unread == [ kind |-> "unread" ]

(* str(n) of a non-negative integer: its decimal digits *)
RECURSIVE Str(_)
Str(n) ==
    LET digit == <<"0", "1", "2", "3", "4", "5", "6", "7", "8", "9">>[(n % 10) + 1]
    IN  IF n < 10 THEN <<digit>> ELSE Append(Str(n \div 10), digit)

(* line 107 with only the last digit of the index in the name *)
outfile_last_digit(dir, i) == <<dir, "/", "output_">> \o Str(i % 10) \o <<".png">>

(* line 107: os.path.join(save_to_directory, f'output_{idx}.png'), as the  *)
(* pieces of the string                                                    *)
outfile(dir, i) == <<dir, "/", "output_">> \o Str(i) \o <<".png">>

(* line 101 with the index counted from 1 *)
SelectedFromOne(all, i) == all \/ (i + 1) % 5 = 0

(* line 101 *)
Selected(all, i) == all \/ i % 5 = 0

(* line 104 passing on the key colour sampled from the first frame that   *)
(* was processed                                                           *)
DriverKeyColorCached(hist, done) ==
    IF done = << >> THEN None
    ELSE getpixel(convert(fromarray(hist[done[1].idx + 1]), "YCbCr"), 1, 1)

(* line 104: the key colour and the tolerance the driver passes on: none,  *)
(* whatever it has processed before                                        *)
DriverKeyColor(hist, done) == None

Init ==
    /\ pc = "loop"
    /\ process_all_frames \in BOOLEAN
    /\ idx = 0
    /\ frames = << >>
    /\ saved = << >>
    /\ closed = FALSE
    /\ ccArgs = None /\ ccI = 0 /\ ccOut = << >> /\ ccBranch = << >>
    /\ rgArgs = None /\ rgPc = "idle" /\ rgRet = [ raised |-> "not called" ]

(* one pass of the loop body on a frame that line 101 selects *)
ProcessFrame ==
    /\ pc = "loop"
    /\ idx < MaxFrames
    /\ Selected(process_all_frames, idx)
    /\ \E frame \in VideoFrames :
          LET r == remove_green_screen(frame, idx, DriverKeyColor(frames, saved), None)
          IN  /\ frames' = Append(frames, frame)
              /\ IF r.raised = "none"
                 THEN /\ saved' = Append(saved,
                                         [ path |-> outfile(save_to_directory, idx),
                                           idx |-> idx, image |-> r.cleaned ])
                      /\ pc' = "loop"
                 ELSE /\ saved' = saved
                      /\ pc' = "raised"
    /\ idx' = idx + 1
    /\ UNCHANGED <<process_all_frames, closed, ccVars, rgVars>>

(* one pass of the loop on a frame that line 101 does not select: the     *)
(* frame is yielded and never read                                         *)
SkipFrame ==
    /\ pc = "loop"
    /\ idx < MaxFrames
    /\ ~Selected(process_all_frames, idx)
    /\ frames' = Append(frames, Unread)
    /\ idx' = idx + 1
    /\ UNCHANGED <<pc, process_all_frames, saved, closed, ccVars, rgVars>>

(* the video is exhausted: line 113 *)
EndOfVideo ==
    /\ pc = "loop"
    /\ pc' = "done"
    /\ closed' = TRUE
    /\ UNCHANGED <<process_all_frames, idx, frames, saved, ccVars, rgVars>>

Next == ProcessFrame \/ SkipFrame \/ EndOfVideo

Spec == Init /\ [][Next]_vars

----------------------------------------------------------------------------
(* The vectorised classifier, lines 59 and 62, one element at a time.      *)

CcInit ==
    /\ ccArgs \in [ px : [1..ArrLen -> PixelChromas], key : KeyChromas,
                    tola : TolVals, tolb : TolVals ]
    /\ ccI = 0
    /\ ccOut = << >>
    /\ ccBranch = << >>
    /\ rgArgs = None /\ rgPc = "idle" /\ rgRet = [ raised |-> "not called" ]
    /\ pc = "idle" /\ process_all_frames = TRUE /\ idx = 0
    /\ frames = << >> /\ saved = << >> /\ closed = FALSE

maskgen ==
    /\ ccI < ArrLen
    /\ LET p == ccArgs.px[ccI + 1]
           temp == colorclose_temp(p[1], p[2], ccArgs.key[1], ccArgs.key[2])
       IN  /\ ccBranch' = Append(ccBranch,
                                 colorclose_branch(temp, ccArgs.tola, ccArgs.tolb))
           /\ ccOut' = Append(ccOut,
                              colorclose(p[1], p[2], ccArgs.key[1], ccArgs.key[2],
                                         ccArgs.tola, ccArgs.tolb))
    /\ ccI' = ccI + 1
    /\ UNCHANGED <<ccArgs, rgVars, drVars>>

SpecClose == CcInit /\ [][maskgen]_vars

----------------------------------------------------------------------------
(* Properties of colorclose, under SpecClose.                              *)

(* squared chroma distance of element i of the call to the key *)
DistSq(i) ==
    (ccArgs.key[1] - ccArgs.px[i][1]) * (ccArgs.key[1] - ccArgs.px[i][1])
  + (ccArgs.key[2] - ccArgs.px[i][2]) * (ccArgs.key[2] - ccArgs.px[i][2])

(* z encloses exactly the real number Scale * 255 * (d - a) / (b - a),     *)
(* d = sqrt(dsq), a < b: lo <= it <= hi, and lo = hi or lo < it < hi = lo+1 *)
EnclosesRamp(z, dsq, a, b) ==
    LET K == 255 * Scale
    IN  /\ LeKSqrt(z.lo * (b - a) + K * a, K, dsq)
        /\ GeKSqrt(z.hi * (b - a) + K * a, K, dsq)
        /\ \/ z.hi = z.lo
           \/ /\ z.hi = z.lo + 1
              /\ ~GeKSqrt(z.lo * (b - a) + K * a, K, dsq)
              /\ ~LeKSqrt(z.hi * (b - a) + K * a, K, dsq)

(* C1: with 0 <= tol_low < tol_high, every classified element has the      *)
(* value of the three-region ramp of its chroma distance d: exactly 0 when *)
(* d < tol_low, 255 * (d - tol_low) / (tol_high - tol_low) when            *)
(* tol_low <= d < tol_high, exactly 255 when d >= tol_high.                *)
C1_ThreeRegionRamp ==
    (0 <= ccArgs.tola /\ ccArgs.tola < ccArgs.tolb) =>
        \A i \in 1..ccI :
            LET a == ccArgs.tola
                b == ccArgs.tolb
                z == ccOut[i]
            IN  /\ "lo" \in DOMAIN z
                /\ DistSq(i) < a * a => z = [ lo |-> 0, hi |-> 0 ]
                /\ (a * a <= DistSq(i) /\ DistSq(i) < b * b) =>
                       EnclosesRamp(z, DistSq(i), a, b)
                /\ DistSq(i) >= b * b => z = [ lo |-> 255 * Scale, hi |-> 255 * Scale ]

(* C1 witness: under the tolerance (30, 120), one element strictly inside  *)
(* the ramp with an irrational value and one beyond tol_high               *)
C1_Witness ==
    /\ ccI = ArrLen
    /\ ccArgs.tola = 30 /\ ccArgs.tolb = 120
    /\ \E i, j \in 1..ArrLen :
          /\ 900 < DistSq(i) /\ DistSq(i) < 14400
          /\ 0 < ccOut[i].lo /\ ccOut[i].lo < ccOut[i].hi
          /\ DistSq(j) > 14400 /\ ccOut[j].lo = 255 * Scale

(* C2: for fixed tolerances and key, the opacity is non-decreasing in the  *)
(* chroma distance: d1 <= d2 implies opacity1 <= opacity2.                 *)
C2_Monotone ==
    \A i, j \in 1..ccI :
        DistSq(i) <= DistSq(j) =>
            /\ "lo" \in DOMAIN ccOut[i] /\ "lo" \in DOMAIN ccOut[j]
            /\ ccOut[i].lo <= ccOut[j].lo
            /\ ccOut[i].hi <= ccOut[j].hi

(* C2 witness: two elements at different distances inside the ramp, the    *)
(* nearer one with the strictly smaller opacity                            *)
C2_Witness ==
    /\ ccI = ArrLen
    /\ \E i, j \in 1..ArrLen :
          /\ DistSq(i) < DistSq(j)
          /\ ccBranch[i] = "ramp" /\ ccBranch[j] = "ramp"
          /\ ccOut[i].hi < ccOut[j].lo

(* C10: whatever the tolerances, line 27 divides only by a positive        *)
(* tolb - tola, so no element raises; with tol_low >= tol_high the value   *)
(* is 0 or 255; every value lies in [0, 255].                              *)
C10_NoBadDivision ==
    \A i \in 1..ccI :
        /\ ccBranch[i] = "ramp" => ccArgs.tolb - ccArgs.tola > 0
        /\ "lo" \in DOMAIN ccOut[i]
        /\ 0 <= ccOut[i].lo /\ ccOut[i].lo <= ccOut[i].hi /\ ccOut[i].hi <= 255 * Scale
        /\ ccArgs.tola >= ccArgs.tolb =>
               ccOut[i] \in { [ lo |-> 0, hi |-> 0 ],
                              [ lo |-> 255 * Scale, hi |-> 255 * Scale ] }

(* C10 witness: equal tolerances (30, 30), an element at distance exactly  *)
(* 30 classified 255 and an element nearer than 30 classified 0            *)
C10_Witness ==
    /\ ccI = ArrLen
    /\ ccArgs.tola = 30 /\ ccArgs.tolb = 30
    /\ \E i, j \in 1..ArrLen :
          /\ DistSq(i) = 900 /\ ccOut[i].lo = 255 * Scale
          /\ DistSq(j) < 900 /\ ccOut[j].hi = 0

----------------------------------------------------------------------------
(* Properties of remove_green_screen, under SpecFrame.                     *)

(* the tolerance the call runs with *)
ArgTolerance == IF rgArgs.tolerance = None THEN <<30, 120>> ELSE rgArgs.tolerance

(* the frame of the call is an image that has a pixel (1,1) when the key   *)
(* is to be sampled there                                                  *)
ArgKeyResolvable ==
    /\ rgArgs.frame.kind = "rgb"
    /\ rgArgs.keyColor = None => (rgArgs.frame.w >= 2 /\ rgArgs.frame.h >= 2)

(* the key colour of the call: the one passed, or the frame's pixel (1,1), *)
(* row 1 and column 1 counted from 0, in YCbCr                             *)
ArgKey ==
    IF rgArgs.keyColor = None
    THEN RGB2YCbCr(rgArgs.frame.px[rgArgs.frame.w + 2])
    ELSE rgArgs.keyColor

(* every pixel of the frame is the key colour *)
ArgFrameIsKey ==
    /\ ArgKeyResolvable
    /\ \A i \in 1..Len(rgArgs.frame.px) : RGB2YCbCr(rgArgs.frame.px[i]) = ArgKey

(* C3 as claimed: on a frame that is an image, a tolerance with            *)
(* tol_low >= tol_high, or with a negative value, is rejected with         *)
(* InvalidTolerance and no image is returned.                              *)
C3_InvalidToleranceRejected ==
    ( /\ rgPc # "call"
      /\ ArgKeyResolvable
      /\ rgArgs.tolerance # None
      /\ \/ rgArgs.tolerance[1] >= rgArgs.tolerance[2]
         \/ rgArgs.tolerance[1] < 0
         \/ rgArgs.tolerance[2] < 0 )
    => (rgPc = "raised" /\ rgRet.raised = "InvalidTolerance")

(* C7: on a frame whose every pixel is the key colour, with a tolerance    *)
(* 0 <= tol_low < tol_high, the call returns with the Alpha Mask 0 and the *)
(* Inverted Mask 255 at every pixel, and the spill layer equal at every    *)
(* pixel to the flat key-coloured layer.                                   *)
C7_KeyFrameAllBackground ==
    ( /\ rgPc # "call"
      /\ ArgFrameIsKey
      /\ 0 <= ArgTolerance[1] /\ ArgTolerance[1] < ArgTolerance[2] )
    => /\ rgPc = "returned"
       /\ \A i \in 1..Len(rgArgs.frame.px) :
             /\ rgRet.alphaMask[i] = [ lo |-> 0, hi |-> 0 ]
             /\ rgRet.imMask.px[i] = 0
             /\ rgRet.invertMask.px[i] = 255
             /\ rgRet.allgreen.px[i] = ArgKey
             /\ rgRet.colorMask.px[i] = YCbCr2RGBA(ArgKey)

(* C7 witness: a 2 x 2 frame of the backdrop green, the key sampled at     *)
(* (1,1), the tolerance (0, 40), after the call                            *)
C7_Witness ==
    /\ rgPc = "returned"
    /\ rgArgs.keyColor = None
    /\ rgArgs.tolerance = <<0, 40>>
    /\ rgArgs.frame.kind = "rgb" /\ rgArgs.frame.w = 2 /\ rgArgs.frame.h = 2
    /\ \A i \in 1..4 : rgArgs.frame.px[i] = <<0, 255, 0>>
    /\ \A i \in 1..4 : rgRet.invertMask.px[i] = 255

(* the pixel of the frame as line 77 converts it: to YCbCr, then to RGBA *)
OriginalRGBA(i) == YCbCr2RGBA(RGB2YCbCr(rgArgs.frame.px[i]))

(* C8 as claimed: the subtraction changes only the RGB channels; a pixel   *)
(* with alpha mask 0 comes out black and opaque, and every output alpha is *)
(* the alpha of the converted original.                                    *)
C8_AlphaUntouched ==
    rgPc = "returned" =>
        \A i \in 1..Len(rgArgs.frame.px) :
            /\ rgRet.cleaned.px[i][4] = OriginalRGBA(i)[4]
            /\ rgRet.alphaMask[i] = [ lo |-> 0, hi |-> 0 ] =>
                   ( /\ rgRet.cleaned.px[i][4] = 255
                     /\ \A c \in 1..3 : rgRet.cleaned.px[i][c] = 0 )

(* C8 amended: the subtraction acts on all four channels.  The output      *)
(* alpha is the alpha of the converted original (255) less the alpha of    *)
(* the spill layer, which is the Inverted Mask: it is the Alpha Mask value *)
(* rounded up.  A pixel with alpha mask 0 comes out transparent (alpha 0)  *)
(* with each RGB channel the original less the key colour, floored at 0; a *)
(* pixel with alpha mask 255 comes out as the converted original, opaque.  *)
C8_AlphaSubtracted ==
    rgPc = "returned" =>
        \A i \in 1..Len(rgArgs.frame.px) :
            LET keyRGBA == YCbCr2RGBA(rgRet.keyColor)
                out == rgRet.cleaned.px[i]
            IN  /\ out[4] = 255 - rgRet.invertMask.px[i]
                /\ out[4] = CeilDiv(rgRet.alphaMask[i].hi, Scale)
                /\ rgRet.alphaMask[i] = [ lo |-> 0, hi |-> 0 ] =>
                       /\ out[4] = 0
                       /\ \A c \in 1..3 :
                             out[c] = IF OriginalRGBA(i)[c] > keyRGBA[c]
                                      THEN OriginalRGBA(i)[c] - keyRGBA[c] ELSE 0
                /\ rgRet.alphaMask[i] = [ lo |-> 255 * Scale, hi |-> 255 * Scale ] =>
                       out = OriginalRGBA(i)

(* C8 witness: a returned image with a background pixel that came out      *)
(* transparent, a foreground pixel that stayed opaque and a pixel between  *)
C8_Witness ==
    /\ rgPc = "returned"
    /\ \E i, j, k \in 1..Len(rgArgs.frame.px) :
          /\ rgRet.alphaMask[i].hi = 0 /\ rgRet.cleaned.px[i][4] = 0
          /\ rgRet.alphaMask[j].lo = 255 * Scale /\ rgRet.cleaned.px[j][4] = 255
          /\ 0 < rgRet.cleaned.px[k][4] /\ rgRet.cleaned.px[k][4] < 255

----------------------------------------------------------------------------
(* Properties of remove_green_screen_from_video, under Spec.               *)

(* the number a sequence of decimal digits writes *)
RECURSIVE ParseDigits(_)
ParseDigits(ds) ==
    IF ds = << >> THEN 0
    ELSE 10 * ParseDigits(SubSeq(ds, 1, Len(ds) - 1))
         + (CHOOSE d \in 0..9 :
              <<"0", "1", "2", "3", "4", "5", "6", "7", "8", "9">>[d + 1] = ds[Len(ds)])

(* path is <directory>/output_<i>.png *)
IsOutputPath(path, i) ==
    /\ Len(path) >= 5
    /\ path[1] = save_to_directory /\ path[2] = "/" /\ path[3] = "output_"
    /\ path[Len(path)] = ".png"
    /\ \A k \in 4..(Len(path) - 1) :
          path[k] \in {"0", "1", "2", "3", "4", "5", "6", "7", "8", "9"}
    /\ (Len(path) > 5 => path[4] # "0")
    /\ ParseDigits(SubSeq(path, 4, Len(path) - 1)) = i

(* the indices of the files written, in the order written *)
SavedIndices == [ k \in 1..Len(saved) |-> saved[k].idx ]

(* a frame the compositor takes: an RGB image that has a pixel (1,1) *)
WellFormed(frame) == frame.kind = "rgb" /\ frame.w >= 2 /\ frame.h >= 2

(* C4: with process_all_frames = False an output is written for the index  *)
(* i exactly when i % 5 = 0, as output_<i>.png, in increasing order; a     *)
(* video of 12 frames gives exactly the indices 0, 5, 10.                  *)
C4_EveryFifthFrame ==
    (pc # "idle" /\ ~process_all_frames) =>
        /\ \A k \in 1..Len(saved) :
              /\ saved[k].idx % 5 = 0 /\ saved[k].idx < idx
              /\ IsOutputPath(saved[k].path, saved[k].idx)
              /\ k > 1 => saved[k - 1].idx < saved[k].idx
        /\ pc = "done" =>
              { saved[k].idx : k \in 1..Len(saved) } = { i \in 0..(idx - 1) : i % 5 = 0 }
        /\ (pc = "done" /\ idx = 12) => SavedIndices = <<0, 5, 10>>

(* C4 witness: a video of 12 frames has run to its end with                *)
(* process_all_frames = False and three files are written                  *)
C4_Witness ==
    /\ pc = "done" /\ ~process_all_frames /\ idx = 12
    /\ Len(saved) = 3 /\ saved[3].idx = 10

(* C5: with process_all_frames = True, on frames that are all well-formed  *)
(* (RGB images holding the pixel (1,1) the key is sampled at), the driver  *)
(* never aborts and writes one image per frame index, in increasing order, *)
(* to <output_directory>/output_<index>.png, no index or path repeated or  *)
(* skipped; a video of 3 frames gives exactly the indices 0, 1, 2.         *)
C5_OneImagePerFrame ==
    ( /\ pc # "idle" /\ process_all_frames
      /\ \A k \in 1..Len(frames) : WellFormed(frames[k]) )
    => /\ pc # "raised"
       /\ Len(saved) = idx
       /\ \A k \in 1..Len(saved) :
             /\ saved[k].idx = k - 1
             /\ IsOutputPath(saved[k].path, k - 1)
             /\ saved[k].image.w = frames[k].w /\ saved[k].image.h = frames[k].h
       /\ \A j, k \in 1..Len(saved) : j # k => saved[j].path # saved[k].path
       /\ (pc = "done" /\ idx = 3) => SavedIndices = <<0, 1, 2>>

(* C5 witness: a video of 3 well-formed frames has run to its end with     *)
(* process_all_frames = True                                               *)
C5_Witness ==
    /\ pc = "done" /\ process_all_frames /\ idx = 3 /\ closed
    /\ \A k \in 1..3 : WellFormed(frames[k])
    /\ Len(saved) = 3

(* C6 as claimed: a malformed frame at a selected index is rejected for    *)
(* that frame only: the error is caught, nothing is written for the index  *)
(* and the loop goes on to the later frames.                               *)
C6_MalformedFrameSkipped ==
    \A k \in 1..Len(frames) :
        frames[k].kind = "bad" =>
            /\ pc \in {"loop", "done"}
            /\ \A j \in 1..Len(saved) : saved[j].idx # k - 1

(* the image the compositor makes of a frame alone: the key its own pixel  *)
(* (1,1), the tolerance the default                                        *)
ImageOfFrameAlone[frame \in { f \in VideoFrames : WellFormed(f) }] ==
    LET im == convert(fromarray(frame), "YCbCr")
    IN  Composite(im, im.px[im.w + 2], <<30, 120>>).cleaned

(* C9: no state is carried from one frame to the next: the image written   *)
(* for an index is the image of that frame alone, keyed on its own pixel   *)
(* (1,1), whatever frames came before it; equal frames give equal images.  *)
C9_NoStateAcrossFrames ==
    /\ \A k \in 1..Len(saved) :
          /\ WellFormed(frames[saved[k].idx + 1])
          /\ saved[k].image = ImageOfFrameAlone[frames[saved[k].idx + 1]]
    /\ \A j, k \in 1..Len(saved) :
          frames[saved[j].idx + 1] = frames[saved[k].idx + 1] =>
              saved[j].image = saved[k].image

(* C9 witness: the same frame written at index 0 and at index 2, a frame   *)
(* with another key colour at (1,1) written between them                   *)
C9_Witness ==
    /\ Len(saved) >= 3
    /\ frames[1] = frames[3] /\ frames[2] # frames[1]
    /\ frames[1].px[4] # frames[2].px[4]
    /\ saved[1].image = saved[3].image /\ saved[2].image # saved[1].image

====
